---- MODULE Spec2Model ----
(***************************************************************************)
(* State-machine model of modules/llamacpp_model.py: the module-level      *)
(* engine imports, llama_cpp_lib, LlamaCppModel.from_pretrained, __del__,  *)
(* generate and generate_with_streaming.                                   *)
(*                                                                         *)
(* Text is a sequence of one-character strings, token sequences are        *)
(* sequences of integers.  An optional value (Python None or a value) is a *)
(* record [none, val].                                                     *)
(***************************************************************************)
EXTENDS Integers, Sequences, FiniteSets, TLC

(* ------------------------------ bounds -------------------------------- *)
\* longest prompt, in tokens
MaxPrompt == 2
\* largest max_new_tokens of a request
MaxNewTokens == 3
\* largest n of the generated capacity strings "n", "nMiB", "nGiB"
MaxCapacityN == 1

(* ------------------------------ text ---------------------------------- *)
Digits == <<"0", "1", "2", "3", "4", "5", "6", "7", "8", "9">>

DigitSet == {Digits[i] : i \in 1..10}

\* the class [a-zA-Z] of the regular expression on lines 65 and 67
Letters ==
    {"a", "b", "c", "d", "e", "f", "g", "h", "i", "j", "k", "l", "m",
     "n", "o", "p", "q", "r", "s", "t", "u", "v", "w", "x", "y", "z",
     "A", "B", "C", "D", "E", "F", "G", "H", "I", "J", "K", "L", "M",
     "N", "O", "P", "Q", "R", "S", "T", "U", "V", "W", "X", "Y", "Z"}

DigitVal(c) == CHOOSE d \in 0..9 : Digits[d + 1] = c

\* Python: sub in s
Contains(s, sub) ==
    \E i \in 1..(Len(s) - Len(sub) + 1) : SubSeq(s, i, i + Len(sub) - 1) = sub

\* Python: re.sub('[a-zA-Z]', '', s)
IsNotLetter(c) == c \notin Letters

ReSubLetters(s) == SelectSeq(s, IsNotLetter)

\* Python: str.strip() restricted to the blank
RECURSIVE LStrip(_)
LStrip(s) == IF s # <<>> /\ Head(s) = " " THEN LStrip(Tail(s)) ELSE s

RECURSIVE RStrip(_)
RStrip(s) ==
    IF s # <<>> /\ s[Len(s)] = " " THEN RStrip(SubSeq(s, 1, Len(s) - 1)) ELSE s

Strip(s) == RStrip(LStrip(s))

\* the part of an integer literal after blanks and sign are taken off
Unsigned(s) ==
    LET t == Strip(s)
    IN  IF t # <<>> /\ Head(t) \in {"+", "-"} THEN Tail(t) ELSE t

IsNegative(s) == LET t == Strip(s) IN t # <<>> /\ Head(t) = "-"

\* Python: int(s) accepts blanks around, one sign, decimal digits with single
\* underscores between digits; anything else raises ValueError
IntParses(s) ==
    LET u == Unsigned(s)
    IN  /\ u # <<>>
        /\ \A i \in 1..Len(u) : u[i] \in DigitSet \cup {"_"}
        /\ u[1] \in DigitSet
        /\ u[Len(u)] \in DigitSet
        /\ \A i \in 1..(Len(u) - 1) : ~(u[i] = "_" /\ u[i + 1] = "_")

RECURSIVE DigitsValue(_, _)
DigitsValue(u, acc) ==
    IF u = <<>> THEN acc
    ELSE IF Head(u) = "_" THEN DigitsValue(Tail(u), acc)
    ELSE DigitsValue(Tail(u), 10 * acc + DigitVal(Head(u)))

IntValue(s) ==
    IF IsNegative(s) THEN 0 - DigitsValue(Unsigned(s), 0)
    ELSE DigitsValue(Unsigned(s), 0)

\* Python: str(n) for n >= 0
RECURSIVE Str(_)
Str(n) == IF n < 10 THEN <<Digits[n + 1]>> ELSE Str(n \div 10) \o <<Digits[(n % 10) + 1]>>

RECURSIVE Concat(_)
Concat(texts) == IF texts = <<>> THEN <<>> ELSE Head(texts) \o Concat(Tail(texts))

IsPrefix(a, b) == Len(a) <= Len(b) /\ SubSeq(b, 1, Len(a)) = a

(* ------------------------------ values -------------------------------- *)
None == [none |-> TRUE, val |-> <<>>]

Some(v) == [none |-> FALSE, val |-> v]

\* the engine modules; NoModule is the Python None bound on lines 25, 31, 32
NoModule == "None"

Unbound == "unbound"

VARIABLES
    env,                 \* which engine packages import, and accelerated hardware
    args,                \* shared.args: cpu, cache_capacity
    path,                \* the model file
    request,             \* prompt tokens and generation state of the request
    imported,            \* module-level code has run
    llama_cpp_ggml,      \* module global, lines 16-19
    llama_cpp_cuda,      \* module global, lines 21-32
    llama_cpp_ggml_cuda, \* module global, lines 21-32
    loadStatus,          \* outcome of from_pretrained
    loadLib,             \* module whose Llama and LlamaCache load resolved
    cache_capacity,      \* local of from_pretrained, line 62
    handle,              \* the LlamaCppModel object
    handleDel,           \* outcome of LlamaCppModel.__del__
    backend,             \* the Llama instance: teardown count, cache, collected
    stop_everything,     \* shared.stop_everything
    consumed,            \* chunks that passed the check of line 147
    kAtStop,             \* value of consumed when stop_everything became set
    callback,            \* callback argument of generate
    gpc,                 \* position of the generate frame
    genLib,              \* module generate resolved LogitsProcessorList from
    sent,                \* token sequence decoded and passed to create_completion
    logits_processor,    \* logits_processor argument of create_completion
    stream,              \* the backend's chunk generator
    text,                \* text of the chunk in hand
    output,              \* local of generate, line 145
    result,              \* value generate returned
    cbLog,               \* texts passed to the callback, in order
    spc,                 \* position of the generate_with_streaming generator
    task,                \* the adapter's generation task
    q,                   \* the adapter's handoff channel
    stop_now,            \* the adapter's cancellation token
    exited,              \* the with statement's exit has run
    reply,               \* local of generate_with_streaming, line 158
    pulled               \* items yielded to the consumer, in order

envVars == <<env, args, path, request>>

moduleVars == <<imported, llama_cpp_ggml, llama_cpp_cuda, llama_cpp_ggml_cuda>>

loadVars == <<loadStatus, loadLib, cache_capacity>>

handleVars == <<handle, handleDel, backend>>

stopVars == <<stop_everything, consumed, kAtStop>>

genVars ==
    <<callback, gpc, genLib, sent, logits_processor, stream, text, output,
      result, cbLog>>

streamVars == <<spc, task, q, stop_now, exited, reply, pulled>>

vars ==
    <<env, args, path, request, imported, llama_cpp_ggml, llama_cpp_cuda,
      llama_cpp_ggml_cuda, loadStatus, loadLib, cache_capacity, handle,
      handleDel, backend, stop_everything, consumed, kAtStop, callback, gpc, genLib,
      sent, logits_processor, stream, text, output, result, cbLog, spc, task,
      q, stop_now, exited, reply, pulled>>

(* ------------------------- external collaborators --------------------- *)
\* modules.utils.is_gguf: the format family of the model file
is_gguf(model_file) == model_file.family = "modern"

\* modules.text_generation.get_max_prompt_length
get_max_prompt_length(state) == state.max_prompt_length

(* ------------------------- module-level imports ----------------------- *)
\* lines 14-32: llama_cpp always imports; each optional package imports or
\* the except branch binds its fallback
ImportModule ==
    /\ ~imported
    /\ imported' = TRUE
    /\ llama_cpp_ggml' = IF env.ggml THEN "llama_cpp_ggml" ELSE "llama_cpp"
    /\ IF env.hw
       THEN LET cuda == IF env.cuda THEN "llama_cpp_cuda" ELSE NoModule
            IN  /\ llama_cpp_cuda' = cuda
                /\ llama_cpp_ggml_cuda' =
                       IF env.ggml_cuda THEN "llama_cpp_ggml_cuda" ELSE cuda
       ELSE /\ llama_cpp_cuda' = NoModule
            /\ llama_cpp_ggml_cuda' = NoModule
    /\ UNCHANGED <<envVars, loadVars, handleVars, stopVars,
                   genVars, streamVars>>

(* ------------------------------ llama_cpp_lib ------------------------- *)
\* lines 35-40; model_file is None or Some(path)
llama_cpp_lib(model_file) ==
    LET gguf_model == IF ~model_file.none THEN is_gguf(model_file.val) ELSE TRUE
    IN  IF args.cpu \/ llama_cpp_cuda = NoModule
        THEN IF gguf_model THEN "llama_cpp" ELSE llama_cpp_ggml
        ELSE IF gguf_model THEN llama_cpp_cuda ELSE llama_cpp_ggml_cuda

(* ------------------------------ from_pretrained ----------------------- *)
GiB == <<"G", "i", "B">>

MiB == <<"M", "i", "B">>

\* lines 64-69: whether the int() call of the branch taken returns
CapacityParses(c) ==
    IF Contains(c, GiB) \/ Contains(c, MiB)
    THEN IntParses(ReSubLetters(c))
    ELSE IntParses(c)

\* as CapacityValue, with the binary multiplier the unit name MiB suggests
CapacityValue_binary(c) ==
    IF Contains(c, GiB) THEN IntValue(ReSubLetters(c)) * 1000 * 1000 * 1000
    ELSE IF Contains(c, MiB) THEN IntValue(ReSubLetters(c)) * 1024 * 1024
    ELSE IntValue(c)

\* lines 64-69: the value assigned to cache_capacity
CapacityValue(c) ==
    IF Contains(c, GiB) THEN IntValue(ReSubLetters(c)) * 1000 * 1000 * 1000
    ELSE IF Contains(c, MiB) THEN IntValue(ReSubLetters(c)) * 1000 * 1000
    ELSE IntValue(c)

NoHandle == [exists |-> FALSE, initialized |-> FALSE, hasModel |-> FALSE]

NoBackend ==
    [exists |-> FALSE, lib |-> NoModule, cache |-> None, delCount |-> 0,
     collected |-> FALSE]

\* line 101: Llama(**params)
NewBackend(lib) ==
    [exists |-> TRUE, lib |-> lib, cache |-> None, delCount |-> 0,
     collected |-> FALSE]

\* lines 102-103: set_cache(LlamaCache(capacity_bytes=cache_capacity))
AttachCache(b, capacity) ==
    IF capacity > 0 THEN [b EXCEPT !.cache = Some(capacity)] ELSE b

\* lines 56-106.  The object is created on line 61; the int() calls of lines
\* 65-69 may raise ValueError; building params and constructing the model
\* (lines 73-101) may raise in the engine.
FromPretrained ==
    /\ imported
    /\ loadStatus = "notcalled"
    /\ LET lib == llama_cpp_lib(Some(path))
           created == [exists |-> TRUE, initialized |-> FALSE, hasModel |-> FALSE]
       IN  /\ loadLib' = lib
           /\ IF lib = NoModule
              THEN /\ loadStatus' = "AttributeError"
                   /\ UNCHANGED <<cache_capacity, handle, backend>>
              ELSE IF ~args.cache_capacity.none
                      /\ ~CapacityParses(args.cache_capacity.val)
              THEN /\ loadStatus' = "ValueError"
                   /\ handle' = created
                   /\ UNCHANGED <<cache_capacity, backend>>
              ELSE /\ cache_capacity' =
                          IF args.cache_capacity.none THEN 0
                          ELSE CapacityValue(args.cache_capacity.val)
                   /\ \E constructed \in BOOLEAN :
                          IF constructed
                          THEN /\ loadStatus' = "ok"
                               /\ handle' = [created EXCEPT !.hasModel = TRUE]
                               /\ backend' = AttachCache(NewBackend(lib), cache_capacity')
                          ELSE /\ loadStatus' = "EngineError"
                               /\ handle' = created
                               /\ UNCHANGED backend
    /\ UNCHANGED <<envVars, moduleVars, handleDel, stopVars,
                   genVars, streamVars>>

(* ------------------------------ teardown ------------------------------ *)
\* no frame of generate or of the streaming generator refers to the handle
Unreferenced ==
    /\ gpc \in {"idle", "done", "raised"}
    /\ spc \in {"none", "finished", "closed", "error"}
    /\ task \in {"none", "stopped"}

\* lines 52-53: self.model.__del__(); AttributeError when load never bound
\* self.model
LlamaCppModel_del ==
    /\ handle.exists
    /\ handleDel = "live"
    /\ Unreferenced
    /\ IF handle.hasModel
       THEN /\ handleDel' = "ok"
            /\ backend' = [backend EXCEPT !.delCount = @ + 1]
       ELSE /\ handleDel' = "AttributeError"
            /\ UNCHANGED backend
    /\ UNCHANGED <<envVars, moduleVars, loadVars, handle, stopVars, genVars, streamVars>>

\* the interpreter finalizes the Llama instance once nothing refers to it:
\* its __del__ runs again, whatever line 53 did before
BackendFinalize ==
    /\ backend.exists
    /\ handleDel # "live"
    /\ ~backend.collected
    /\ backend' = [backend EXCEPT !.delCount = @ + 1, !.collected = TRUE]
    /\ UNCHANGED <<envVars, moduleVars, loadVars, handle, handleDel,
                   stopVars, genVars, streamVars>>

(* ------------------------------ the engine ---------------------------- *)
\* the engine's vocabulary: token 1 is "a", token 2 is "b", token 3 ends the
\* sequence
token_eos == 3

Vocab == 1..token_eos

PromptChars == {"a", "b"}

TokenId(c) == IF c = "a" THEN 1 ELSE 2

TokenChar(t) == IF t = 1 THEN "a" ELSE "b"

\* Llama.tokenize and Llama.detokenize
tokenize(string) == [i \in 1..Len(string) |-> TokenId(string[i])]

detokenize(tokens) == [i \in 1..Len(tokens) |-> TokenChar(tokens[i])]

NegInf == "-inf"

LogitVals == {NegInf, "finite"}

\* as ban_eos_logits_processor, returning the logits as they came
ban_eos_logits_processor_unchanged(eos_token, input_ids, logits) == logits

\* lines 43-45
ban_eos_logits_processor(eos_token, input_ids, logits) ==
    [logits EXCEPT ![eos_token] = NegInf]

\* LogitsProcessorList.__call__: each installed step in turn; an installed
\* step is partial(ban_eos_logits_processor, eos_token)
RECURSIVE ApplySteps(_, _, _)
ApplySteps(steps, input_ids, logits) ==
    IF steps = <<>> THEN logits
    ELSE ApplySteps(Tail(steps), input_ids,
                    ban_eos_logits_processor(Head(steps).eos_token, input_ids, logits))

ApplyProcessors(lp, input_ids, logits) ==
    IF lp.none THEN logits ELSE ApplySteps(lp.val, input_ids, logits)

NoLogits == [t \in Vocab |-> "finite"]

NoStream ==
    [prompt |-> <<>>, max_tokens |-> 0, steps |-> 0, emitted |-> 0,
     end |-> "none", raw |-> NoLogits, processed |-> NoLogits, chunks |-> <<>>]

(* ------------------------------ generate ------------------------------ *)
\* lines 108-115
encode(string) == tokenize(string)

decode(tokens) == detokenize(tokens)

\* Python: s[start:]
PySliceFrom(s, start) ==
    LET n == Len(s)
        lo == IF start < 0
              THEN (IF n + start < 0 THEN 0 ELSE n + start)
              ELSE (IF start > n THEN n ELSE start)
    IN  SubSeq(s, lo + 1, n)

\* line 125
Truncate(prompt, state) == PySliceFrom(prompt, 0 - get_max_prompt_length(state))

\* lines 140-142
MakeLogitsProcessor(state) ==
    IF state.ban_eos_token
    THEN Some(<<[func |-> "ban_eos_logits_processor", eos_token |-> token_eos]>>)
    ELSE None

\* lines 119-145 with callback cb: resolve the engine variant, truncate the
\* prompt through the tokenizer, open the chunk stream
GenerateBegin(cb) ==
    /\ gpc = "idle"
    /\ callback' = cb
    /\ genLib' = llama_cpp_lib(None)
    /\ sent' = Truncate(encode(request.prompt), request)
    /\ logits_processor' = MakeLogitsProcessor(request)
    /\ stream' = [NoStream EXCEPT !.prompt = decode(sent'),
                                  !.max_tokens = request.max_new_tokens,
                                  !.end = "open"]
    /\ output' = <<>>
    /\ gpc' = "next"
    /\ UNCHANGED <<text, result, cbLog>>

\* a call of generate, with no callback or with one that records its argument
Generate ==
    /\ loadStatus = "ok"
    /\ handleDel = "live"
    /\ spc = "none"
    /\ \E cb \in {"None", "log"} : GenerateBegin(cb)
    /\ UNCHANGED <<envVars, moduleVars, loadVars, handleVars, stopVars,
                   streamVars>>

\* the generate frame runs: called directly, or inside the adapter's task
Running == callback # "_callback" \/ task = "running"

\* line 146: the for statement asks the engine for the next chunk.  The
\* engine stops at max_tokens; otherwise it computes logits, applies the
\* installed steps and samples a token whose logit is not -inf: the
\* end-of-sequence token ends the stream, any other is yielded as a chunk.
\* The engine may raise.
NextChunk ==
    /\ gpc = "next"
    /\ Running
    /\ \/ /\ stream.emitted >= stream.max_tokens
          /\ stream' = [stream EXCEPT !.end = "length"]
          /\ gpc' = "return"
          /\ UNCHANGED text
       \/ /\ stream.emitted < stream.max_tokens
          /\ \E raw \in [Vocab -> LogitVals] :
                LET processed == ApplyProcessors(logits_processor, <<>>, raw)
                    step == [stream EXCEPT !.steps = @ + 1, !.raw = raw,
                                            !.processed = processed]
                IN  \E t \in Vocab :
                        /\ processed[t] # NegInf
                        /\ IF t = token_eos
                           THEN /\ stream' = [step EXCEPT !.end = "eos"]
                                /\ gpc' = "return"
                                /\ UNCHANGED text
                           ELSE /\ stream' =
                                       [step EXCEPT
                                           !.emitted = @ + 1,
                                           !.chunks = Append(@, detokenize(<<t>>))]
                                /\ text' = detokenize(<<t>>)
                                /\ gpc' = "check"
       \/ /\ stream.emitted < stream.max_tokens
          /\ stream' = [stream EXCEPT !.end = "error"]
          /\ gpc' = "raised"
          /\ UNCHANGED text
    /\ UNCHANGED <<envVars, moduleVars, loadVars, handleVars, stopVars,
                   callback, genLib, sent, logits_processor, output, result,
                   cbLog, streamVars>>

\* as CheckStop, never looking at the cancellation flag
CheckStop_unchecked ==
    /\ gpc = "check"
    /\ Running
    /\ gpc' = "body"
    /\ consumed' = consumed + 1
    /\ UNCHANGED <<envVars, moduleVars, loadVars, handleVars, stop_everything,
                   kAtStop, callback, genLib, sent, logits_processor, stream,
                   text, output, result, cbLog, streamVars>>

\* lines 147-148
CheckStop ==
    /\ gpc = "check"
    /\ Running
    /\ IF stop_everything
       THEN /\ gpc' = "return"
            /\ UNCHANGED consumed
       ELSE /\ gpc' = "body"
            /\ consumed' = consumed + 1
    /\ UNCHANGED <<envVars, moduleVars, loadVars, handleVars, stop_everything,
                   kAtStop, callback, genLib, sent, logits_processor, stream,
                   text, output, result, cbLog, streamVars>>

\* the adapter's on_token callback: it aborts the generation once the
\* cancellation token is set, and hands the text to the channel otherwise
Iteratorize_callback(val) ==
    IF stop_now
    THEN /\ gpc' = "aborted"
         /\ UNCHANGED <<q, cbLog>>
    ELSE /\ gpc' = "next"
         /\ q' = Append(q, val)
         /\ cbLog' = Append(cbLog, val)

\* lines 149-152
ConsumeChunk ==
    /\ gpc = "body"
    /\ Running
    /\ output' = output \o text
    /\ IF callback = "None"
       THEN /\ gpc' = "next"
            /\ UNCHANGED <<q, cbLog>>
       ELSE IF callback = "log"
       THEN /\ gpc' = "next"
            /\ cbLog' = Append(cbLog, text)
            /\ UNCHANGED q
       ELSE Iteratorize_callback(text)
    /\ UNCHANGED <<envVars, moduleVars, loadVars, handleVars, stopVars,
                   callback, genLib, sent, logits_processor, stream, text,
                   result, spc, task, stop_now, exited, reply, pulled>>

\* line 154
Return ==
    /\ gpc = "return"
    /\ Running
    /\ result' = Some(output)
    /\ gpc' = "done"
    /\ UNCHANGED <<envVars, moduleVars, loadVars, handleVars, stopVars,
                   callback, genLib, sent, logits_processor, stream, text,
                   output, cbLog, streamVars>>

\* another thread sets shared.stop_everything while generate runs
SetStop ==
    /\ gpc \in {"next", "check", "body", "return"}
    /\ ~stop_everything
    /\ stop_everything' = TRUE
    /\ kAtStop' = consumed
    /\ UNCHANGED <<envVars, moduleVars, loadVars, handleVars, consumed,
                   genVars, streamVars>>

(* ------------------------ generate_with_streaming --------------------- *)
\* the channel's completion sentinel, and a raised error handed to the puller
Sentinel == <<"<sentinel>">>

ErrorItem == <<"<error>">>

\* the adapter's scope exit: it sets the cancellation token
Iteratorize_exit == stop_now' = TRUE

\* the adapter's construction: a fresh channel, and the generation task
\* started on another thread
Iteratorize_init ==
    /\ q' = <<>>
    /\ stop_now' = FALSE
    /\ task' = "running"

\* line 156: calling the generator function makes a generator object; none
\* of its body has run
StreamCall ==
    /\ loadStatus = "ok"
    /\ handleDel = "live"
    /\ gpc = "idle"
    /\ spc = "none"
    /\ spc' = "created"
    /\ UNCHANGED <<envVars, moduleVars, loadVars, handleVars, stopVars,
                   genVars, task, q, stop_now, exited, reply, pulled>>

\* lines 157-159, the first next(): the with statement enters the adapter,
\* reply = '', and the for statement starts to pull
StreamStart ==
    /\ spc = "created"
    /\ Iteratorize_init
    /\ reply' = <<>>
    /\ spc' = "pulling"
    /\ UNCHANGED <<envVars, moduleVars, loadVars, handleVars, stopVars,
                   genVars, exited, pulled>>

\* the task calls generate with the adapter's callback
TaskBegin ==
    /\ task = "running"
    /\ GenerateBegin("_callback")
    /\ UNCHANGED <<envVars, moduleVars, loadVars, handleVars, stopVars,
                   streamVars>>

\* the task ends: generate returned, was aborted by the callback, or raised;
\* the channel gets the completion sentinel, or the error to propagate
TaskFinish ==
    /\ task = "running"
    /\ gpc \in {"done", "aborted", "raised"}
    /\ q' = Append(q, IF gpc = "raised" THEN ErrorItem ELSE Sentinel)
    /\ task' = "stopped"
    /\ UNCHANGED <<envVars, moduleVars, loadVars, handleVars, stopVars,
                   genVars, spc, stop_now, exited, reply, pulled>>

\* as Accumulate, yielding the chunk instead of the text so far
Accumulate_delta(so_far, token) == token

\* line 160
Accumulate(so_far, token) == so_far \o token

\* lines 159-161: the pull returns an item of the channel.  A text is added
\* to reply and reply is yielded; the sentinel ends the for statement and an
\* error propagates, and both leave the with statement, which runs its exit
StreamPull ==
    /\ spc = "pulling"
    /\ q # <<>>
    /\ q' = Tail(q)
    /\ LET token == Head(q)
       IN  IF token \in {Sentinel, ErrorItem}
           THEN /\ spc' = IF token = Sentinel THEN "finished" ELSE "error"
                /\ Iteratorize_exit
                /\ exited' = TRUE
                /\ UNCHANGED <<reply, pulled>>
           ELSE /\ reply' = Accumulate(reply, token)
                /\ pulled' = Append(pulled, reply')
                /\ spc' = "yielded"
                /\ UNCHANGED <<stop_now, exited>>
    /\ UNCHANGED <<envVars, moduleVars, loadVars, handleVars, stopVars,
                   genVars, task>>

\* the consumer asks for the next item: the generator resumes after line 161
StreamNext ==
    /\ spc = "yielded"
    /\ spc' = "pulling"
    /\ UNCHANGED <<envVars, moduleVars, loadVars, handleVars, stopVars,
                   genVars, task, q, stop_now, exited, reply, pulled>>

\* as StreamClose, with the adapter used outside a with statement: leaving
\* the generator runs no exit
StreamClose_noExit ==
    /\ spc \in {"created", "yielded"}
    /\ spc' = "closed"
    /\ UNCHANGED <<envVars, moduleVars, loadVars, handleVars, stopVars,
                   genVars, task, q, stop_now, exited, reply, pulled>>

\* the consumer stops early: the generator is closed (or an error is thrown
\* into it) at the yield of line 161, inside the with statement, whose exit
\* runs.  A generator closed before its first next() never entered it.
StreamClose ==
    /\ spc \in {"created", "yielded"}
    /\ spc' = "closed"
    /\ IF spc = "yielded"
       THEN /\ Iteratorize_exit
            /\ exited' = TRUE
       ELSE UNCHANGED <<stop_now, exited>>
    /\ UNCHANGED <<envVars, moduleVars, loadVars, handleVars, stopVars,
                   genVars, task, q, reply, pulled>>

(* ------------------------------ specification ------------------------- *)
Texts(chars, n) == UNION {[1..k -> chars] : k \in 0..n}

Envs == [hw : BOOLEAN, ggml : BOOLEAN, cuda : BOOLEAN, ggml_cuda : BOOLEAN]

Paths == [family : {"modern", "legacy"}]

\* capacity strings "n", "nMiB", "nGiB"
Units == {<<>>, MiB, GiB}

Formatted(n, unit) == Str(n) \o unit

\* the strings of the documented cases, and strings off the documented forms
SampleCapacities ==
    {<<>>,
     <<"2", "G", "i", "B">>,
     <<"5", "0", "0", "M", "i", "B">>,
     <<"1", "2", "3", "4", "5">>,
     <<"G", "i", "B">>,
     <<"1", " ", "G", "i", "B">>,
     <<"1", ".", "5", "G", "i", "B">>,
     <<"1", "K", "i", "B">>,
     <<"1", "M", "i", "B", "G", "i", "B">>,
     <<"-", "1">>,
     <<"1", "_", "0">>}

Capacities ==
    {None} \cup {Some(c) : c \in SampleCapacities}
           \cup {Some(Formatted(n, u)) : n \in 0..MaxCapacityN, u \in Units}

Requests ==
    [prompt : Texts(PromptChars, MaxPrompt),
     max_prompt_length : 0..(MaxPrompt + 1),
     max_new_tokens : 0..MaxNewTokens,
     ban_eos_token : BOOLEAN]

InitWith(envs, cpus, capacities, paths, requests, stops) ==
    /\ env \in envs
    /\ args \in [cpu : cpus, cache_capacity : capacities]
    /\ path \in paths
    /\ request \in requests
    /\ imported = FALSE
    /\ llama_cpp_ggml = Unbound
    /\ llama_cpp_cuda = Unbound
    /\ llama_cpp_ggml_cuda = Unbound
    /\ loadStatus = "notcalled"
    /\ loadLib = Unbound
    /\ cache_capacity = 0
    /\ handle = NoHandle
    /\ handleDel = "live"
    /\ backend = NoBackend
    /\ stop_everything \in stops
    /\ consumed = 0
    /\ kAtStop = IF stop_everything THEN 0 ELSE 0 - 1
    /\ callback = "None"
    /\ gpc = "idle"
    /\ genLib = Unbound
    /\ sent = <<>>
    /\ logits_processor = None
    /\ stream = NoStream
    /\ text = <<>>
    /\ output = <<>>
    /\ result = None
    /\ cbLog = <<>>
    /\ spc = "none"
    /\ task = "none"
    /\ q = <<>>
    /\ stop_now = FALSE
    /\ exited = FALSE
    /\ reply = <<>>
    /\ pulled = <<>>

Next ==
    \/ ImportModule
    \/ FromPretrained
    \/ LlamaCppModel_del
    \/ BackendFinalize
    \/ Generate
    \/ NextChunk
    \/ CheckStop
    \/ ConsumeChunk
    \/ Return
    \/ SetStop
    \/ StreamCall
    \/ StreamStart
    \/ TaskBegin
    \/ TaskFinish
    \/ StreamPull
    \/ StreamNext
    \/ StreamClose

OneEnv == {[hw |-> TRUE, ggml |-> TRUE, cuda |-> TRUE, ggml_cuda |-> TRUE]}

OnePath == {[family |-> "modern"]}

OneRequest ==
    {[prompt |-> <<"a", "b">>, max_prompt_length |-> 1, max_new_tokens |-> 1,
      ban_eos_token |-> FALSE]}

\* every engine environment and model family, one request
Init == InitWith(Envs, BOOLEAN, {None}, Paths, OneRequest, {FALSE})

Spec == Init /\ [][Next]_vars

\* every cache-capacity setting
LoadInit == InitWith(OneEnv, {FALSE}, Capacities, Paths, OneRequest, {FALSE})

LoadSpec == LoadInit /\ [][Next]_vars

\* every prompt and every maximum prompt length
TruncInit ==
    InitWith(OneEnv, {FALSE}, {None}, OnePath,
             {r \in Requests : r.max_new_tokens = 1 /\ ~r.ban_eos_token}, {FALSE})

TruncSpec == TruncInit /\ [][Next]_vars

\* every max_new_tokens, with and without the end-of-sequence ban, the
\* cancellation flag set before the call or at any point during it
GenInit ==
    InitWith(OneEnv, {FALSE}, {None}, OnePath,
             {r \in Requests : r.prompt = <<"a", "b">> /\ r.max_prompt_length = 1},
             BOOLEAN)

GenSpec == GenInit /\ [][Next]_vars

\* the adapter's task is a thread of its own: it takes its steps
TaskStep ==
    /\ task = "running"
    /\ TaskBegin \/ NextChunk \/ CheckStop \/ ConsumeChunk \/ Return \/ TaskFinish

FairSpec == GenInit /\ [][Next]_vars /\ WF_vars(TaskStep)

(* ------------------------------ properties --------------------------- *)
\* C1: once the cancellation flag is set with K chunks consumed, no text of
\* a later chunk is appended to the output or passed to the callback, and
\* generate returns exactly the concatenation of the first K chunk texts
\* (the empty string when K = 0).
CancellationKeepsPrefix ==
    kAtStop >= 0 =>
        LET kept == SubSeq(stream.chunks, 1, kAtStop)
        IN  /\ IsPrefix(output, Concat(kept))
            /\ IsPrefix(cbLog, kept)
            /\ gpc = "done" =>
                   /\ result = Some(Concat(kept))
                   /\ callback # "None" => cbLog = kept

\* the flag was set after one chunk; the engine yielded a second one, which
\* generate dropped
CancelledAfterOneChunk ==
    /\ gpc = "done"
    /\ kAtStop = 1
    /\ Len(stream.chunks) = 2
    /\ callback = "log"
    /\ result = Some(stream.chunks[1])

\* the flag was set before the call: the first chunk is pulled and dropped
CancelledBeforeFirstChunk ==
    /\ gpc = "done"
    /\ kAtStop = 0
    /\ Len(stream.chunks) = 1
    /\ result = Some(<<>>)

\* C2: the token sequence generate decodes and sends has at most N tokens:
\* the last N of the prompt's L tokens when L > N, all of them when L <= N.
TruncationKeepsTail ==
    gpc # "idle" =>
        LET tokens == encode(request.prompt)
            L == Len(tokens)
            N == get_max_prompt_length(request)
        IN  /\ Len(sent) <= N
            /\ L > N => sent = SubSeq(tokens, L - N + 1, L)
            /\ L <= N => sent = tokens

\* C3: the i-th item pulled from generate_with_streaming is the
\* concatenation of the first i chunk texts; each item extends the one
\* before it and is at least as long.
CumulativeItems ==
    \A i \in 1..Len(pulled) :
        /\ pulled[i] = Concat(SubSeq(stream.chunks, 1, i))
        /\ i > 1 => /\ Len(pulled[i]) >= Len(pulled[i - 1])
                    /\ IsPrefix(pulled[i - 1], pulled[i])

TwoItemsPulled ==
    /\ Len(pulled) = 2
    /\ pulled[1] = <<"a">>
    /\ pulled[2] = <<"a", "b">>

\* the consumer of generate_with_streaming has stopped pulling from an
\* adapter it entered
ConsumerStopped == spc \in {"finished", "closed", "error"} /\ task # "none"

\* C4: on every exit path of the consumer (stream exhausted, early stop,
\* error while pulling) the adapter's exit has run; from then on the task
\* hands no further text to the channel, and it eventually stops.
AdapterCleanup ==
    /\ [](ConsumerStopped => exited /\ stop_now)
    /\ [][(exited /\ task = "running") => cbLog' = cbLog]_vars
    /\ (ConsumerStopped ~> task = "stopped")

\* the consumer stopped after one item while the engine had more to give:
\* the exit ran, the callback aborted the generation and the task stopped
EarlyStopEndsTask ==
    /\ spc = "closed"
    /\ exited
    /\ Len(pulled) = 1
    /\ gpc = "aborted"
    /\ task = "stopped"

\* C5: the backend instance's teardown never runs a second time on the same
\* instance, and the handle's teardown never fails on a handle without a
\* backend instance.
TeardownOnce ==
    /\ backend.delCount <= 1
    /\ handleDel # "AttributeError"

\* the engine variant is accelerated when the hardware is there and the cpu
\* flag is off
Accelerated == env.hw /\ ~args.cpu

CpuLegacy == IF env.ggml THEN "llama_cpp_ggml" ELSE "llama_cpp"

\* the resolution table with its fallbacks, over the packages that import
TableEntry(gguf_model) ==
    IF ~Accelerated THEN (IF gguf_model THEN "llama_cpp" ELSE CpuLegacy)
    ELSE IF gguf_model
    THEN (IF env.cuda THEN "llama_cpp_cuda" ELSE "llama_cpp")
    ELSE IF env.ggml_cuda THEN "llama_cpp_ggml_cuda"
    ELSE IF env.cuda THEN "llama_cpp_cuda"
    ELSE CpuLegacy

\* C6: llama_cpp_lib returns the entry of the resolution table, a fallback
\* only when the variant before it did not import, and never an absent
\* module.
ResolverFollowsTable ==
    loadStatus # "notcalled" =>
        /\ loadLib = TableEntry(is_gguf(path))
        /\ loadLib # NoModule

\* the numbers n of the capacity strings the specification draws
CapacityNumbers == (0..MaxCapacityN) \cup {2, 500, 12345}

Multiplier(unit) ==
    IF unit = GiB THEN 1000000000 ELSE IF unit = MiB THEN 1000000 ELSE 1

\* C7: the capacity derived from "n", "nMiB", "nGiB" is n, n * 1,000,000 and
\* n * 1,000,000,000 bytes; a loaded model has a cache, of that capacity,
\* exactly when the derived capacity is greater than 0.
CapacityDecimal ==
    /\ \A n \in CapacityNumbers : \A unit \in Units :
           (loadStatus # "notcalled"
                /\ args.cache_capacity = Some(Formatted(n, unit))) =>
               /\ loadStatus # "ValueError"
               /\ cache_capacity = n * Multiplier(unit)
    /\ loadStatus = "ok" =>
           /\ ~backend.cache.none <=> cache_capacity > 0
           /\ ~backend.cache.none => backend.cache.val = cache_capacity

OneMiBCacheAttached ==
    /\ loadStatus = "ok"
    /\ args.cache_capacity = Some(<<"1", "M", "i", "B">>)
    /\ backend.cache = Some(1000000)

\* C8: with the capacity setting absent or the empty string, load raises no
\* error over it, derives 0 and attaches no cache.
EmptyCapacityDisablesCache ==
    (loadStatus # "notcalled"
        /\ (args.cache_capacity.none \/ args.cache_capacity.val = <<>>)) =>
        /\ loadStatus # "ValueError"
        /\ cache_capacity = 0
        /\ backend.cache.none

\* C9: with ban_eos_token a step is installed that, at every decoding step,
\* sets the end-of-sequence logit to -inf and leaves the others as they
\* were, so the stream never ends on end-of-sequence and runs to
\* max_new_tokens; without ban_eos_token no step is installed.
EosBanned ==
    gpc # "idle" =>
        /\ ~request.ban_eos_token => logits_processor.none
        /\ request.ban_eos_token =>
               /\ ~logits_processor.none
               /\ Len(logits_processor.val) = 1
               /\ stream.steps > 0 =>
                      /\ stream.processed[token_eos] = NegInf
                      /\ \A t \in Vocab \ {token_eos} :
                             stream.processed[t] = stream.raw[t]
               /\ stream.end # "eos"
               /\ stream.end = "length" => stream.emitted = request.max_new_tokens

\* the engine's own logits allowed end-of-sequence at the last step, and the
\* stream still ran to max_new_tokens
BannedEosRanToLength ==
    /\ request.ban_eos_token
    /\ request.max_new_tokens = MaxNewTokens
    /\ gpc = "done"
    /\ stream.end = "length"
    /\ stream.raw[token_eos] # NegInf
    /\ Len(stream.chunks) = MaxNewTokens

\* C10: the engine variant generate resolves is the one load resolved for
\* the model.
SameVariant == genLib # Unbound => genLib = loadLib

====
